---- MODULE Spec2Model ----
(***************************************************************************)
(* Model of the shake-n-bake core: the configuration data model            *)
(* (FileReference, BakeConfiguration, BuildTarget, BuildOptions), the      *)
(* image-name parser (ImageInfo.from_full_name / full_name),               *)
(* get_bake_file_args and the extraction of images from build metadata.    *)
(*                                                                         *)
(* A Python str is a sequence of one-character strings, so that slicing,   *)
(* find/rfind, strip and concatenation are computed and not assumed.       *)
(***************************************************************************)
EXTENDS Integers, Sequences, FiniteSets, TLC

VARIABLES
    full_name,     \* argument handed to ImageInfo.from_full_name
    image,         \* outcome of from_full_name: an ImageInfo or a raised ValueError
    rendered,      \* value of the full_name property read from the returned ImageInfo
    ref_kwargs,    \* keyword arguments handed to FileReference(...)
    file_ref,      \* outcome of that construction
    config_kwargs, \* keyword arguments handed to BakeConfiguration(...)
    config_file,   \* content found at config_path by BakeConfiguration.from_file
    config,        \* outcome of the construction / of from_file
    file_args,     \* outcome of get_bake_file_args(config)
    target_kwargs, \* keyword arguments handed to BuildTarget(...)
    build_target,  \* outcome of that construction
    options_kwargs, \* keyword arguments handed to BuildOptions(...)
    options,       \* the BuildOptions object
    to_args_result, \* list returned by the latest options.to_args()
    to_args_calls, \* number of to_args() calls made on options
    metadata,      \* mapping handed to _extract_images_from_metadata
    images,        \* outcome of _extract_images_from_metadata(metadata)
    requests,      \* per concurrent caller: the operation invoked and its argument
    calls,         \* per concurrent caller: the frame of its invocation
    lists,         \* the list objects the invocations build, by owner
    disk,          \* what the loader finds on disk: the directory and the configuration file
    load_args,     \* arguments of load_bake_context: directory, target, bake_args
    settings,      \* ConfigurationLoader.settings
    loader,        \* frame of load_bake_context: position, steps run, configuration
    context,       \* outcome of load_bake_context
    validation,    \* outcome of validate_context
    given_context, \* the BakeContext handed to execute_bake
    host,          \* what the bake command does when run and the metadata file it leaves
    exec,          \* frame of execute_bake: position, command, duration, exception caught, effects so far
    build_result   \* outcome of execute_bake

imageVars == <<full_name, image, rendered>>
refVars == <<ref_kwargs, file_ref>>
configVars == <<config_kwargs, config_file, config, file_args>>
targetVars == <<target_kwargs, build_target>>
optionsVars == <<options_kwargs, options, to_args_result, to_args_calls>>
metaVars == <<metadata, images>>
concVars == <<requests, calls, lists>>
loadVars == <<disk, load_args, settings, loader, context, validation>>
execVars == <<given_context, host, exec, build_result>>
vars == <<full_name, image, rendered, ref_kwargs, file_ref,
          config_kwargs, config_file, config, file_args,
          target_kwargs, build_target,
          options_kwargs, options, to_args_result, to_args_calls,
          metadata, images, requests, calls, lists,
          disk, load_args, settings, loader, context, validation,
          given_context, host, exec, build_result>>

----------------------------------------------------------------------------
(* Bounds *)

MaxNameLen == 4
MaxRemoteLen == 3
MaxPathLen == 3
MaxEntryPathLen == 1
MaxPathDefs == 2
MaxTargetNameLen == 4
MaxArgs == 3
MaxCalls == 2
MaxCandidates == 3
MaxTargets == 2
NumCallers == 2

----------------------------------------------------------------------------
(* Python values *)

\* Optional[str]: None or a str
None == [some |-> FALSE, val |-> <<>>]
Some(s) == [some |-> TRUE, val |-> s]

\* a call that has not been made / a property that has not been read
NotCalled == [state |-> "not_called"]

\* the parts of the state an operation of another class does not use
ImageIdle == full_name = <<>> /\ image = NotCalled /\ rendered = NotCalled
RefIdle == ref_kwargs = NotCalled /\ file_ref = NotCalled
ConfigIdle ==
    /\ config_kwargs = NotCalled /\ config_file = NotCalled
    /\ config = NotCalled /\ file_args = NotCalled
TargetIdle == target_kwargs = NotCalled /\ build_target = NotCalled
OptionsIdle ==
    /\ options_kwargs = NotCalled /\ options = NotCalled
    /\ to_args_result = NotCalled /\ to_args_calls = 0
MetaIdle == metadata = NotCalled /\ images = NotCalled
ConcIdle == requests = <<>> /\ calls = <<>> /\ lists = <<>>
LoadIdle ==
    /\ disk = NotCalled /\ load_args = NotCalled /\ settings = NotCalled
    /\ loader = NotCalled /\ context = NotCalled /\ validation = NotCalled
ExecIdle ==
    /\ given_context = NotCalled /\ host = NotCalled
    /\ exec = NotCalled /\ build_result = NotCalled

RECURSIVE StrsUpTo(_, _)
StrsUpTo(alphabet, n) ==
    IF n = 0 THEN {<<>>}
    ELSE LET shorter == StrsUpTo(alphabet, n - 1)
         IN  shorter \cup {Append(s, c) : s \in {t \in shorter : Len(t) = n - 1}, c \in alphabet}

\* c in s
Contains(s, c) == \E i \in 1..Len(s) : s[i] = c

\* s.find(c), s.rfind(c): 0-based index of the first / last occurrence, -1 if none
find(s, c) ==
    IF Contains(s, c)
    THEN (CHOOSE i \in 1..Len(s) : s[i] = c /\ \A j \in 1..(i - 1) : s[j] # c) - 1
    ELSE -1

rfind(s, c) ==
    IF Contains(s, c)
    THEN (CHOOSE i \in 1..Len(s) : s[i] = c /\ \A j \in (i + 1)..Len(s) : s[j] # c) - 1
    ELSE -1

\* Python slices s[:i] and s[i:] for 0 <= i <= len(s)
SliceTo(s, i) == SubSeq(s, 1, i)
SliceFrom(s, i) == SubSeq(s, i + 1, Len(s))

----------------------------------------------------------------------------
(* ImageInfo *)

Localhost == <<"l", "o", "c", "a", "l", "h", "o", "s", "t">>

MsgMustIncludeTag == "Image name must include tag"
MsgTagEmpty == "Tag cannot be empty"

\* raise ValueError(msg) without the input
RaiseValueError_noInput(msg, arg) ==
    [state |-> "raised", error |-> "ValueError", msg |-> msg, arg |-> <<>>]

\* raise ValueError(f"{msg}: {full_name}")
RaiseValueError(msg, arg) ==
    [state |-> "raised", error |-> "ValueError", msg |-> msg, arg |-> arg]

\* ImageInfo(name=..., tag=..., registry=...): three str fields without constraints
ImageInfo(name, tag, registry) ==
    [state |-> "returned", name |-> name, tag |-> tag, registry |-> registry]

\* ImageInfo.full_name
ImageFullName_dropRegistry(img) ==
    img.name \o <<":">> \o img.tag

ImageFullName(img) ==
    IF img.registry.some /\ img.registry.val # <<>>
    THEN img.registry.val \o <<"/">> \o img.name \o <<":">> \o img.tag
    ELSE img.name \o <<":">> \o img.tag

\* last_colon_idx = full_name.rfind(":")
last_colon_idx_first(s) == find(s, ":")

last_colon_idx(s) == rfind(s, ":")

\* `if not tag`
not_tag_never(tag) == FALSE

not_tag(tag) == tag = <<>>

\* Docker's rule: registry if it contains '.', ':', or is 'localhost'
is_registry_noLocalhost(potential_registry) ==
    \/ Contains(potential_registry, ".")
    \/ Contains(potential_registry, ":")

\* every first segment taken for a registry
is_registry_anySegment(potential_registry) == TRUE

is_registry(potential_registry) ==
    \/ Contains(potential_registry, ".")
    \/ Contains(potential_registry, ":")
    \/ potential_registry = Localhost

\* ImageInfo.from_full_name
from_full_name(s) ==
    IF ~Contains(s, ":") THEN RaiseValueError(MsgMustIncludeTag, s)
    ELSE
    LET potential_tag == SliceFrom(s, last_colon_idx(s) + 1)
        name_part == SliceTo(s, last_colon_idx(s))
        tag == potential_tag
        first_slash == find(name_part, "/")
        potential_registry == SliceTo(name_part, first_slash)
    IN  IF Contains(potential_tag, "/") THEN RaiseValueError(MsgMustIncludeTag, s)
        ELSE IF not_tag(tag) THEN RaiseValueError(MsgTagEmpty, s)
        ELSE IF Contains(name_part, "/") /\ is_registry(potential_registry)
             THEN ImageInfo(SliceFrom(name_part, first_slash + 1), tag, Some(potential_registry))
             ELSE ImageInfo(name_part, tag, None)

----------------------------------------------------------------------------
(* FileReference, BakeConfiguration, get_bake_file_args *)

\* Keyword arguments, dict entries and JSON objects are functions from key
\* names to values; a key that is not supplied is not in the DOMAIN.
Has(d, key) == key \in DOMAIN d

MsgFilePathEmpty == "file_path cannot be empty"
MsgFieldRequired == "Field required"
MsgTooShort == "List should have at least 1 item"
MsgRemoteRequired == "Remote URL is required when path_definitions contain remote references"
MsgFileNotFound == "Configuration file not found"
MsgInvalidJson == "Invalid JSON in configuration file"
MsgFailedToLoad == "Failed to load configuration"

\* a raised exception: its type and the messages its text contains
Raise(error, msgs) == [state |-> "raised", error |-> error, msgs |-> msgs]

\* str.strip(): leading and trailing whitespace removed
IsSpace(c) == c \in {" ", "\t", "\n"}

RECURSIVE lstrip(_)
lstrip(s) == IF s # <<>> /\ IsSpace(Head(s)) THEN lstrip(Tail(s)) ELSE s

RECURSIVE rstrip(_)
rstrip(s) == IF s # <<>> /\ IsSpace(s[Len(s)]) THEN rstrip(SubSeq(s, 1, Len(s) - 1)) ELSE s

strip(s) == rstrip(lstrip(s))

\* FileReference.validate_file_path: the messages it raises, none when v passes
validate_file_path_stripped(v) == IF strip(v) = <<>> THEN {MsgFilePathEmpty} ELSE {}

validate_file_path(v) == IF v = <<>> THEN {MsgFilePathEmpty} ELSE {}

\* validation of one FileReference from its fields (both are required)
FileReferenceErrors(d) ==
    (IF Has(d, "file_path") THEN validate_file_path(d.file_path) ELSE {MsgFieldRequired})
    \cup (IF Has(d, "is_remote") THEN {} ELSE {MsgFieldRequired})

\* FileReference(file_path=..., is_remote=...)
FileReference(d) ==
    IF FileReferenceErrors(d) # {}
    THEN Raise("ValidationError", FileReferenceErrors(d))
    ELSE [state |-> "returned", file_path |-> d.file_path, is_remote |-> d.is_remote]

\* BakeConfiguration.validate_remote_url
validate_remote_url_noStrip(v) ==
    IF v.some THEN (IF v.val = <<>> THEN None ELSE Some(v.val)) ELSE v

validate_remote_url(v) ==
    IF v.some
    THEN (IF strip(v.val) = <<>> THEN None ELSE Some(strip(v.val)))
    ELSE v

\* BakeConfiguration.has_remote_files
has_remote_files(path_definitions) ==
    \E i \in 1..Len(path_definitions) : path_definitions[i].is_remote

\* BakeConfiguration.validate_remote_consistency: the messages it raises
validate_remote_consistency_off(remote, path_definitions) == {}

validate_remote_consistency(remote, path_definitions) ==
    IF has_remote_files(path_definitions) /\ ~(remote.some /\ remote.val # <<>>)
    THEN {MsgRemoteRequired}
    ELSE {}

\* the remote field: the default None when not supplied (defaults are not
\* validated), else the validator's result
RemoteField(d) == IF Has(d, "remote") THEN validate_remote_url(d.remote) ELSE None

\* the path_definitions field: default_factory=list when not supplied (not
\* validated), else every item validated as a FileReference and min_length=1
PathDefinitionsErrors(d) ==
    IF ~Has(d, "path_definitions") THEN {}
    ELSE IF Len(d.path_definitions) < 1 THEN {MsgTooShort}
    ELSE UNION {FileReferenceErrors(d.path_definitions[i]) : i \in 1..Len(d.path_definitions)}

PathDefinitionsField(d) ==
    IF ~Has(d, "path_definitions") THEN <<>>
    ELSE [i \in 1..Len(d.path_definitions) |->
            [file_path |-> d.path_definitions[i].file_path,
             is_remote |-> d.path_definitions[i].is_remote]]

\* BakeConfiguration(**d) / BakeConfiguration.model_validate(d): field
\* validation, then the mode="after" model validator if no field failed
BakeConfiguration(d) ==
    IF PathDefinitionsErrors(d) # {}
    THEN Raise("ValidationError", PathDefinitionsErrors(d))
    ELSE IF validate_remote_consistency(RemoteField(d), PathDefinitionsField(d)) # {}
    THEN Raise("ValidationError", validate_remote_consistency(RemoteField(d), PathDefinitionsField(d)))
    ELSE [state |-> "returned", remote |-> RemoteField(d), path_definitions |-> PathDefinitionsField(d)]

\* the pathDefinitions -> path_definitions conversion of from_file; a KeyError
\* when an element lacks filePath or isRemote
ConvertRaises(data) ==
    /\ Has(data, "pathDefinitions")
    /\ \E i \in 1..Len(data.pathDefinitions) :
        ~Has(data.pathDefinitions[i], "filePath") \/ ~Has(data.pathDefinitions[i], "isRemote")

Converted_reversed(data) ==
    LET n == Len(data.pathDefinitions)
        path_definitions ==
            [i \in 1..n |->
                [file_path |-> data.pathDefinitions[n + 1 - i].filePath,
                 is_remote |-> data.pathDefinitions[n + 1 - i].isRemote]]
        kept == [k \in (DOMAIN data) \ {"pathDefinitions", "path_definitions"} |-> data[k]]
    IN  IF Has(data, "pathDefinitions")
        THEN kept @@ [path_definitions |-> path_definitions]
        ELSE data

Converted(data) ==
    LET path_definitions ==
            [i \in 1..Len(data.pathDefinitions) |->
                [file_path |-> data.pathDefinitions[i].filePath,
                 is_remote |-> data.pathDefinitions[i].isRemote]]
        kept == [k \in (DOMAIN data) \ {"pathDefinitions", "path_definitions"} |-> data[k]]
    IN  IF Has(data, "pathDefinitions")
        THEN kept @@ [path_definitions |-> path_definitions]
        ELSE data

\* BakeConfiguration.from_file without its last `except Exception` clause
from_file_noGenericExcept(file) ==
    IF file.kind = "absent" THEN Raise("ValueError", {MsgFileNotFound})
    ELSE IF file.kind = "invalid_json" THEN Raise("ValueError", {MsgInvalidJson})
    ELSE IF file.kind # "object" THEN Raise("ValidationError", {})
    ELSE IF ConvertRaises(file.data) THEN Raise("KeyError", {})
    ELSE BakeConfiguration(Converted(file.data))

\* BakeConfiguration.from_file
from_file(file) ==
    IF file.kind = "absent" THEN Raise("ValueError", {MsgFileNotFound})
    ELSE IF file.kind = "invalid_json" THEN Raise("ValueError", {MsgInvalidJson})
    ELSE IF file.kind # "object" THEN Raise("ValueError", {MsgFailedToLoad})
    ELSE IF ConvertRaises(file.data) THEN Raise("ValueError", {MsgFailedToLoad})
    ELSE LET made == BakeConfiguration(Converted(file.data))
         IN  IF made.state = "raised"
             THEN Raise("ValueError", {MsgFailedToLoad} \cup made.msgs)
             ELSE made

\* get_bake_file_args
FileFlag == <<"-", "-", "f", "i", "l", "e">>

RECURSIVE FileArgsOf_noFlag(_)
FileArgsOf_noFlag(path_definitions) ==
    IF path_definitions = <<>> THEN <<>>
    ELSE <<Head(path_definitions).file_path>> \o FileArgsOf_noFlag(Tail(path_definitions))

RECURSIVE FileArgsOf(_)
FileArgsOf(path_definitions) ==
    IF path_definitions = <<>> THEN <<>>
    ELSE <<FileFlag, Head(path_definitions).file_path>> \o FileArgsOf(Tail(path_definitions))

get_bake_file_args_remoteWhenSet(configuration) ==
    (IF configuration.remote.some /\ configuration.remote.val # <<>>
     THEN <<FileFlag, configuration.remote.val>>
     ELSE <<>>)
    \o FileArgsOf(configuration.path_definitions)

get_bake_file_args(configuration) ==
    (IF has_remote_files(configuration.path_definitions)
        /\ configuration.remote.some /\ configuration.remote.val # <<>>
     THEN <<FileFlag, configuration.remote.val>>
     ELSE <<>>)
    \o FileArgsOf(configuration.path_definitions)

\* the image names the parser is exercised on: every short string over the
\* separator characters, also behind "localhost" and behind "localhos"
ImageAlphabet == {"a", ".", ":", "/"}
ImagePrefixes == {<<>>, Localhost, SubSeq(Localhost, 1, 8)}
ImageNames == {p \o s : p \in ImagePrefixes, s \in StrsUpTo(ImageAlphabet, MaxNameLen)}

InitImage ==
    /\ full_name \in ImageNames
    /\ image = NotCalled
    /\ rendered = NotCalled
    /\ RefIdle /\ ConfigIdle /\ TargetIdle /\ OptionsIdle /\ MetaIdle /\ ConcIdle /\ LoadIdle /\ ExecIdle

\* image = ImageInfo.from_full_name(full_name)
FromFullName ==
    /\ image = NotCalled
    /\ image' = from_full_name(full_name)
    /\ UNCHANGED <<full_name, rendered, refVars, configVars, targetVars, optionsVars, metaVars, concVars, loadVars, execVars>>

\* rendered = image.full_name
ReadFullName ==
    /\ image # NotCalled
    /\ image.state = "returned"
    /\ rendered = NotCalled
    /\ rendered' = [state |-> "read", val |-> ImageFullName(image)]
    /\ UNCHANGED <<full_name, image, refVars, configVars, targetVars, optionsVars, metaVars, concVars, loadVars, execVars>>

NextImage == FromFullName \/ ReadFullName

SpecImage == InitImage /\ [][NextImage]_vars

----------------------------------------------------------------------------
(* FileReference construction on its own *)

RECURSIVE SeqsUpTo(_, _)
SeqsUpTo(S, n) ==
    IF n = 0 THEN {<<>>}
    ELSE LET shorter == SeqsUpTo(S, n - 1)
         IN  shorter \cup {Append(s, e) : s \in {t \in shorter : Len(t) = n - 1}, e \in S}

PathAlphabet == {"f", "g", " "}

RefKwargs ==
    {[file_path |-> p, is_remote |-> b] : p \in StrsUpTo(PathAlphabet, MaxPathLen), b \in BOOLEAN}
    \cup {[file_path |-> p] : p \in StrsUpTo(PathAlphabet, MaxPathLen)}
    \cup {[is_remote |-> b] : b \in BOOLEAN}

InitFileReference ==
    /\ ref_kwargs \in RefKwargs
    /\ file_ref = NotCalled
    /\ ImageIdle /\ ConfigIdle /\ TargetIdle /\ OptionsIdle /\ MetaIdle /\ ConcIdle /\ LoadIdle /\ ExecIdle

\* file_ref = FileReference(**ref_kwargs)
ConstructFileReference ==
    /\ ref_kwargs # NotCalled
    /\ file_ref = NotCalled
    /\ file_ref' = FileReference(ref_kwargs)
    /\ UNCHANGED <<ref_kwargs, imageVars, configVars, targetVars, optionsVars, metaVars, concVars, loadVars, execVars>>

NextFileReference == ConstructFileReference

SpecFileReference == InitFileReference /\ [][NextFileReference]_vars

----------------------------------------------------------------------------
(* BakeConfiguration: direct construction, from_file, get_bake_file_args *)

RemoteAlphabet == {" ", "\t", "r"}
Remotes == {None} \cup {Some(s) : s \in StrsUpTo(RemoteAlphabet, MaxRemoteLen)}

\* entries as they are handed in: FileReference values and dicts, also with
\* an empty file_path or a field left out
Entries ==
    {[file_path |-> p, is_remote |-> b] : p \in StrsUpTo(PathAlphabet, MaxEntryPathLen), b \in BOOLEAN}
    \cup {[is_remote |-> TRUE], [file_path |-> <<"f">>]}
EntryLists == SeqsUpTo(Entries, MaxPathDefs)

ConfigKwargs ==
    {[remote |-> r, path_definitions |-> l] : r \in Remotes, l \in EntryLists}
    \cup {[path_definitions |-> l] : l \in EntryLists}
    \cup {[remote |-> r] : r \in Remotes}
    \cup {<<>>}

\* the same entry under its JSON field names
JsonEntry(e) ==
    IF Has(e, "file_path") /\ Has(e, "is_remote") THEN [filePath |-> e.file_path, isRemote |-> e.is_remote]
    ELSE IF Has(e, "file_path") THEN [filePath |-> e.file_path]
    ELSE [isRemote |-> e.is_remote]
JsonList(l) == [i \in 1..Len(l) |-> JsonEntry(l[i])]

ShortLists == {l \in EntryLists : Len(l) <= 1}

JsonObjects ==
    {[remote |-> r, pathDefinitions |-> JsonList(l)] : r \in Remotes, l \in EntryLists}
    \cup {[pathDefinitions |-> JsonList(l)] : l \in EntryLists}
    \cup {[remote |-> r] : r \in Remotes}
    \cup {<<>>}
    \cup {[remote |-> r, path_definitions |-> l] : r \in Remotes, l \in ShortLists}
    \cup {[pathDefinitions |-> JsonList(l), path_definitions |-> m] : l \in ShortLists, m \in ShortLists}

\* what open() and json.load() find at config_path
ConfigFiles ==
    {[kind |-> "absent"], [kind |-> "invalid_json"], [kind |-> "array"]}
    \cup {[kind |-> "object", data |-> d] : d \in JsonObjects}

InitConfig ==
    /\ \/ config_kwargs \in ConfigKwargs /\ config_file = NotCalled
       \/ config_kwargs = NotCalled /\ config_file \in ConfigFiles
    /\ config = NotCalled
    /\ file_args = NotCalled
    /\ ImageIdle /\ RefIdle /\ TargetIdle /\ OptionsIdle /\ MetaIdle /\ ConcIdle /\ LoadIdle /\ ExecIdle

\* config = BakeConfiguration(**config_kwargs)
Construct ==
    /\ config_kwargs # NotCalled
    /\ config = NotCalled
    /\ config' = BakeConfiguration(config_kwargs)
    /\ UNCHANGED <<config_kwargs, config_file, file_args, imageVars, refVars, targetVars, optionsVars, metaVars, concVars, loadVars, execVars>>

\* config = BakeConfiguration.from_file(config_path)
FromFile ==
    /\ config_file # NotCalled
    /\ config = NotCalled
    /\ config' = from_file(config_file)
    /\ UNCHANGED <<config_kwargs, config_file, file_args, imageVars, refVars, targetVars, optionsVars, metaVars, concVars, loadVars, execVars>>

\* file_args = get_bake_file_args(config)
GetBakeFileArgs ==
    /\ config # NotCalled
    /\ config.state = "returned"
    /\ file_args = NotCalled
    /\ file_args' = [state |-> "returned", val |-> get_bake_file_args(config)]
    /\ UNCHANGED <<config_kwargs, config_file, config, imageVars, refVars, targetVars, optionsVars, metaVars, concVars, loadVars, execVars>>

NextConfig == Construct \/ FromFile \/ GetBakeFileArgs

SpecConfig == InitConfig /\ [][NextConfig]_vars

----------------------------------------------------------------------------
(* BuildTarget *)

MsgTargetNameEmpty == "Target name cannot be empty"

\* BuildTarget.validate_name: the messages it raises and the value it returns
validate_name_emptyOnly(v) ==
    [msgs |-> IF v = <<>> THEN {MsgTargetNameEmpty} ELSE {}, value |-> strip(v)]

validate_name(v) ==
    [msgs |-> IF v = <<>> \/ strip(v) = <<>> THEN {MsgTargetNameEmpty} ELSE {},
     value |-> strip(v)]

\* BuildTarget(name=..., description=...)
BuildTarget(d) ==
    LET msgs == IF Has(d, "name") THEN validate_name(d.name).msgs ELSE {MsgFieldRequired}
    IN  IF msgs # {}
        THEN Raise("ValidationError", msgs)
        ELSE [state |-> "returned",
              name |-> validate_name(d.name).value,
              description |-> IF Has(d, "description") THEN d.description ELSE None]

TargetAlphabet == {" ", "\t", "t"}

TargetKwargs ==
    {[name |-> s] : s \in StrsUpTo(TargetAlphabet, MaxTargetNameLen)}
    \cup {[name |-> s, description |-> Some(<<"t">>)] : s \in StrsUpTo(TargetAlphabet, 1)}
    \cup {<<>>}

InitTarget ==
    /\ target_kwargs \in TargetKwargs
    /\ build_target = NotCalled
    /\ ImageIdle /\ RefIdle /\ ConfigIdle /\ OptionsIdle /\ MetaIdle /\ ConcIdle /\ LoadIdle /\ ExecIdle

\* build_target = BuildTarget(**target_kwargs)
ConstructBuildTarget ==
    /\ target_kwargs # NotCalled
    /\ build_target = NotCalled
    /\ build_target' = BuildTarget(target_kwargs)
    /\ UNCHANGED <<target_kwargs, imageVars, refVars, configVars, optionsVars, metaVars, concVars, loadVars, execVars>>

NextTarget == ConstructBuildTarget

SpecTarget == InitTarget /\ [][NextTarget]_vars

----------------------------------------------------------------------------
(* BuildOptions *)

DefaultMetadataFile == <<"m", "e", "t", "a", "d", "a", "t", "a", ".", "j", "s", "o", "n">>
MetadataFileFlag ==
    <<"-", "-", "m", "e", "t", "a", "d", "a", "t", "a", "-", "f", "i", "l", "e">>

\* BuildOptions(metadata_file=..., args=...): both fields have defaults
BuildOptions(d) ==
    [state |-> "returned",
     metadata_file |-> IF Has(d, "metadata_file") THEN d.metadata_file ELSE DefaultMetadataFile,
     args |-> IF Has(d, "args") THEN d.args ELSE <<>>]

\* BuildOptions.to_args: the list it returns and the object it leaves behind
to_args_extendsOwnArgs(self) ==
    [result |-> <<MetadataFileFlag, self.metadata_file>> \o self.args,
     self |-> [self EXCEPT !.args = <<MetadataFileFlag, self.metadata_file>> \o self.args]]

to_args(self) ==
    [result |-> <<MetadataFileFlag, self.metadata_file>> \o self.args,
     self |-> self]

OptionArgs == {<<"-", "a">>, <<"-", "b">>}
MetadataFiles == StrsUpTo({"m"}, 2)

OptionsKwargs ==
    {[metadata_file |-> f, args |-> a] : f \in MetadataFiles, a \in SeqsUpTo(OptionArgs, MaxArgs)}
    \cup {[metadata_file |-> f] : f \in MetadataFiles}
    \cup {[args |-> a] : a \in SeqsUpTo(OptionArgs, MaxArgs)}
    \cup {<<>>}

InitOptions ==
    /\ options_kwargs \in OptionsKwargs
    /\ options = NotCalled
    /\ to_args_result = NotCalled
    /\ to_args_calls = 0
    /\ ImageIdle /\ RefIdle /\ ConfigIdle /\ TargetIdle /\ MetaIdle /\ ConcIdle /\ LoadIdle /\ ExecIdle

\* options = BuildOptions(**options_kwargs)
ConstructBuildOptions ==
    /\ options_kwargs # NotCalled
    /\ options = NotCalled
    /\ options' = BuildOptions(options_kwargs)
    /\ UNCHANGED <<options_kwargs, to_args_result, to_args_calls,
                   imageVars, refVars, configVars, targetVars, metaVars, concVars, loadVars, execVars>>

\* to_args_result = options.to_args()
ToArgs ==
    /\ options # NotCalled
    /\ to_args_calls < MaxCalls
    /\ to_args_result' = to_args(options).result
    /\ options' = to_args(options).self
    /\ to_args_calls' = to_args_calls + 1
    /\ UNCHANGED <<options_kwargs, imageVars, refVars, configVars, targetVars, metaVars, concVars, loadVars, execVars>>

NextOptions == ConstructBuildOptions \/ ToArgs

SpecOptions == InitOptions /\ [][NextOptions]_vars

----------------------------------------------------------------------------
(* Attribute assignment on constructed models: FileReference and ImageInfo  *)
(* are plain BaseModel subclasses (no frozen configuration, no             *)
(* validate_assignment), so obj.field = value stores the value as it is.    *)

AssignedStrs == {<<>>, <<"x">>}

\* file_ref.file_path = v / file_ref.is_remote = b
SetFileReferenceAttr ==
    /\ file_ref # NotCalled
    /\ file_ref.state = "returned"
    /\ \/ \E v \in AssignedStrs : file_ref' = [file_ref EXCEPT !.file_path = v]
       \/ \E b \in BOOLEAN : file_ref' = [file_ref EXCEPT !.is_remote = b]
    /\ UNCHANGED <<ref_kwargs, imageVars, configVars, targetVars, optionsVars, metaVars, concVars, loadVars, execVars>>

\* image.name = v / image.tag = v / image.registry = r
SetImageInfoAttr ==
    /\ image # NotCalled
    /\ image.state = "returned"
    /\ \/ \E v \in AssignedStrs : image' = [image EXCEPT !.name = v]
       \/ \E v \in AssignedStrs : image' = [image EXCEPT !.tag = v]
       \/ \E r \in {None} \cup {Some(v) : v \in AssignedStrs} : image' = [image EXCEPT !.registry = r]
    /\ UNCHANGED <<full_name, rendered, refVars, configVars, targetVars, optionsVars, metaVars, concVars, loadVars, execVars>>

InitAssign == InitFileReference \/ InitImage

NextAssign ==
    \/ ConstructFileReference
    \/ FromFullName
    \/ SetFileReferenceAttr
    \/ SetImageInfoAttr

SpecAssign == InitAssign /\ [][NextAssign]_vars

----------------------------------------------------------------------------
(* DockerBakeExecutor._extract_images_from_metadata *)

\* JSON values found in the metadata document
JStr(s) == [type |-> "str", val |-> s]
JNull == [type |-> "null", val |-> <<>>]
JList == [type |-> "list", val |-> <<>>]
JObject(d) == [type |-> "object", val |-> d]

\* `if not image_names`: None and the empty string are falsy, a non-empty
\* list or string is truthy
Falsy(v) == v.type = "null" \/ (v.type = "str" /\ v.val = <<>>)

\* s.split(",")
RECURSIVE split(_, _)
split(s, sep) ==
    IF ~Contains(s, sep) THEN <<s>>
    ELSE <<SliceTo(s, find(s, sep))>> \o split(SliceFrom(s, find(s, sep) + 1), sep)

\* the inner loop: strip each candidate, skip the empty ones, append the
\* ImageInfo of those from_full_name accepts (a ValueError is logged)
RECURSIVE ParseCandidates_stopAtFailure(_)
ParseCandidates_stopAtFailure(candidates) ==
    IF candidates = <<>> THEN <<>>
    ELSE LET image_name == strip(Head(candidates))
         IN  IF image_name = <<>> THEN ParseCandidates_stopAtFailure(Tail(candidates))
             ELSE IF from_full_name(image_name).state = "returned"
                  THEN <<from_full_name(image_name)>> \o ParseCandidates_stopAtFailure(Tail(candidates))
                  ELSE <<>>

RECURSIVE ParseCandidates(_)
ParseCandidates(candidates) ==
    IF candidates = <<>> THEN <<>>
    ELSE LET image_name == strip(Head(candidates))
         IN  (IF image_name # <<>> /\ from_full_name(image_name).state = "returned"
              THEN <<from_full_name(image_name)>>
              ELSE <<>>)
             \o ParseCandidates(Tail(candidates))

\* target_data.get("image.name", "")
ImageNamesOf(target_data) ==
    IF Has(target_data.val, "image.name") THEN target_data.val["image.name"] ELSE JStr(<<>>)

\* the body of the outer loop raises (AttributeError) when target_data has no
\* .get or a truthy image_names has no .split
TargetRaises(target_data) ==
    \/ target_data.type # "object"
    \/ ~Falsy(ImageNamesOf(target_data)) /\ ImageNamesOf(target_data).type # "str"

\* the outer loop over metadata.items(), from the images collected so far;
\* the `except Exception` ends the loop and keeps what `images` holds
RECURSIVE ExtractLoop(_, _)
ExtractLoop(targets, collected) ==
    IF targets = <<>> THEN collected
    ELSE IF TargetRaises(Head(targets)) THEN collected
    ELSE IF Falsy(ImageNamesOf(Head(targets))) THEN ExtractLoop(Tail(targets), collected)
    ELSE ExtractLoop(Tail(targets),
                     collected \o ParseCandidates(split(ImageNamesOf(Head(targets)).val, ",")))

\* _extract_images_from_metadata(metadata)
extract_images_from_metadata(md) ==
    [state |-> "returned",
     val |-> IF md.type # "object" THEN <<>> ELSE ExtractLoop(md.val, <<>>)]

\* candidates as the build tool writes them, and some it does not
CandidateTexts ==
    { <<"a", ":", "1">>, <<" ", "b", ":", "2">>, <<"x">>, <<>>, <<" ">>, <<"a", ":">> }

RECURSIVE JoinedUpTo(_)
JoinedUpTo(n) ==
    IF n = 1 THEN CandidateTexts
    ELSE JoinedUpTo(n - 1)
         \cup {s \o <<",">> \o c : s \in JoinedUpTo(n - 1), c \in CandidateTexts}

TargetDatas(n) ==
    {JObject([k \in {"image.name"} |-> JStr(s)]) : s \in JoinedUpTo(n)}
    \cup {JObject(<<>>), JObject([k \in {"image.name"} |-> JNull]),
          JObject([k \in {"image.name"} |-> JList]), JNull}

\* a mapping is the sequence of its values in document order: one target
\* with up to MaxCandidates candidates, or several with one candidate each
Metadatas ==
    {JObject(<<td>>) : td \in TargetDatas(MaxCandidates)}
    \cup {JObject(m) : m \in SeqsUpTo(TargetDatas(1), MaxTargets)}
    \cup {JList}

InitMeta ==
    /\ metadata \in Metadatas
    /\ images = NotCalled
    /\ ImageIdle /\ RefIdle /\ ConfigIdle /\ TargetIdle /\ OptionsIdle /\ ConcIdle /\ LoadIdle /\ ExecIdle

\* images = self._extract_images_from_metadata(metadata)
ExtractImages ==
    /\ metadata # NotCalled
    /\ images = NotCalled
    /\ images' = extract_images_from_metadata(metadata)
    /\ UNCHANGED <<metadata, imageVars, refVars, configVars, targetVars, optionsVars, concVars, loadVars, execVars>>

NextMeta == ExtractImages

SpecMeta == InitMeta /\ [][NextMeta]_vars

----------------------------------------------------------------------------
(* Concurrent callers of from_full_name, get_bake_file_args, to_args and    *)
(* _extract_images_from_metadata.  Each invocation runs in its own frame;   *)
(* the loops of get_bake_file_args and of the extraction advance one        *)
(* iteration per step, so that the callers interleave inside them.          *)

Callers == 1..NumCallers

\* `args: List[str] = []` and `images = []` are created by the invocation:
\* the list an invocation appends to is its own (lists.args[c], lists.images[c])
ListOwner_moduleLevel(c) == 1

ListOwner(c) == c

ConcConfigs ==
    { BakeConfiguration([remote |-> Some(<<"r">>),
                         path_definitions |-> << [file_path |-> <<"f">>, is_remote |-> TRUE],
                                                 [file_path |-> <<"g">>, is_remote |-> FALSE] >>]),
      BakeConfiguration([path_definitions |-> << [file_path |-> <<"g">>, is_remote |-> FALSE] >>]) }

ConcMetadatas ==
    { JObject(<< JObject([k \in {"image.name"} |-> JStr(<<"a", ":", "1">>)]),
                 JObject([k \in {"image.name"} |-> JStr(<<"x", ",", "b", ":", "2">>)]) >>),
      JObject(<< JObject([k \in {"image.name"} |-> JStr(<<"b", ":", "2">>)]) >>) }

ConcRequests ==
    {[op |-> "from_full_name", arg |-> [full_name |-> s]] : s \in {<<"a", ":", "1">>, <<"x">>}}
    \cup {[op |-> "get_bake_file_args", arg |-> cfg] : cfg \in ConcConfigs}
    \cup {[op |-> "to_args", arg |-> BuildOptions(d)] : d \in {<<>>, [args |-> <<<<"-", "a">>, <<"-", "b">>>>]}}
    \cup {[op |-> "extract", arg |-> md] : md \in ConcMetadatas}

InitConcurrent ==
    /\ requests \in [Callers -> ConcRequests]
    /\ calls = [c \in Callers |-> [pc |-> "call", i |-> 0, arg |-> requests[c].arg, ret |-> NotCalled]]
    /\ lists = [f \in {"args", "images"} |-> [c \in Callers |-> <<>>]]
    /\ ImageIdle /\ RefIdle /\ ConfigIdle /\ TargetIdle /\ OptionsIdle /\ MetaIdle /\ LoadIdle /\ ExecIdle

NotConc == <<imageVars, refVars, configVars, targetVars, optionsVars, metaVars, loadVars, execVars>>

\* ImageInfo.from_full_name(arg): no loop, one step
CallFromFullName(c) ==
    /\ requests[c].op = "from_full_name"
    /\ calls[c].pc = "call"
    /\ calls' = [calls EXCEPT ![c].pc = "done", ![c].ret = from_full_name(calls[c].arg.full_name)]
    /\ UNCHANGED <<requests, lists, NotConc>>

\* arg.to_args()
CallToArgs(c) ==
    /\ requests[c].op = "to_args"
    /\ calls[c].pc = "call"
    /\ calls' = [calls EXCEPT ![c].pc = "done",
                              ![c].ret = to_args(calls[c].arg).result,
                              ![c].arg = to_args(calls[c].arg).self]
    /\ UNCHANGED <<requests, lists, NotConc>>

\* get_bake_file_args: args = []
FileArgsStart(c) ==
    /\ requests[c].op = "get_bake_file_args"
    /\ calls[c].pc = "call"
    /\ lists' = [lists EXCEPT !.args[ListOwner(c)] = <<>>]
    /\ calls' = [calls EXCEPT ![c].pc = "remote"]
    /\ UNCHANGED <<requests, NotConc>>

\* get_bake_file_args: the remote pair
FileArgsRemote(c) ==
    /\ requests[c].op = "get_bake_file_args"
    /\ calls[c].pc = "remote"
    /\ LET configuration == calls[c].arg
       IN  lists' = [lists EXCEPT !.args[ListOwner(c)] =
                        IF has_remote_files(configuration.path_definitions)
                           /\ configuration.remote.some /\ configuration.remote.val # <<>>
                        THEN @ \o <<FileFlag, configuration.remote.val>>
                        ELSE @]
    /\ calls' = [calls EXCEPT ![c].pc = "loop", ![c].i = 1]
    /\ UNCHANGED <<requests, NotConc>>

\* get_bake_file_args: one iteration of the loop over path_definitions, or
\* the return after the last
FileArgsLoop(c) ==
    /\ requests[c].op = "get_bake_file_args"
    /\ calls[c].pc = "loop"
    /\ LET pd == calls[c].arg.path_definitions
           i == calls[c].i
       IN  IF i <= Len(pd)
           THEN /\ lists' = [lists EXCEPT !.args[ListOwner(c)] = @ \o <<FileFlag, pd[i].file_path>>]
                /\ calls' = [calls EXCEPT ![c].i = i + 1]
           ELSE /\ calls' = [calls EXCEPT ![c].pc = "done", ![c].ret = lists.args[ListOwner(c)]]
                /\ UNCHANGED lists
    /\ UNCHANGED <<requests, NotConc>>

\* _extract_images_from_metadata: images = [] and metadata.items()
ExtractStart(c) ==
    /\ requests[c].op = "extract"
    /\ calls[c].pc = "call"
    /\ lists' = [lists EXCEPT !.images[ListOwner(c)] = <<>>]
    /\ calls' = [calls EXCEPT ![c].pc = IF calls[c].arg.type = "object" THEN "loop" ELSE "return",
                              ![c].i = 1]
    /\ UNCHANGED <<requests, NotConc>>

\* _extract_images_from_metadata: one target
ExtractStep(c) ==
    /\ requests[c].op = "extract"
    /\ calls[c].pc = "loop"
    /\ LET targets == calls[c].arg.val
           i == calls[c].i
       IN  IF i > Len(targets) \/ TargetRaises(targets[i])
           THEN /\ calls' = [calls EXCEPT ![c].pc = "return"]
                /\ UNCHANGED lists
           ELSE /\ calls' = [calls EXCEPT ![c].i = i + 1]
                /\ lists' = [lists EXCEPT !.images[ListOwner(c)] =
                                IF Falsy(ImageNamesOf(targets[i])) THEN @
                                ELSE @ \o ParseCandidates(split(ImageNamesOf(targets[i]).val, ","))]
    /\ UNCHANGED <<requests, NotConc>>

\* _extract_images_from_metadata: return images
ExtractReturn(c) ==
    /\ requests[c].op = "extract"
    /\ calls[c].pc = "return"
    /\ calls' = [calls EXCEPT ![c].pc = "done", ![c].ret = lists.images[ListOwner(c)]]
    /\ UNCHANGED <<requests, lists, NotConc>>

NextConcurrent ==
    \E c \in Callers :
        \/ CallFromFullName(c)
        \/ CallToArgs(c)
        \/ FileArgsStart(c)
        \/ FileArgsRemote(c)
        \/ FileArgsLoop(c)
        \/ ExtractStart(c)
        \/ ExtractStep(c)
        \/ ExtractReturn(c)

SpecConcurrent == InitConcurrent /\ [][NextConcurrent]_vars

----------------------------------------------------------------------------
(* Specification SpecConfigAssign: what a caller can do to a constructed
   BakeConfiguration.  The model sets no frozen and no validate_assignment, so
   an assignment stores the value and runs no validator; path_definitions is
   a plain list and its entries are plain attributes. *)

\* the constructions that supply path_definitions
InitConfigAssign ==
    /\ InitConfig
    /\ config_kwargs # NotCalled => Has(config_kwargs, "path_definitions")
    /\ (config_file # NotCalled /\ config_file.kind = "object") =>
        (Has(config_file.data, "pathDefinitions") \/ Has(config_file.data, "path_definitions"))

\* config.remote = r
SetRemote ==
    /\ config # NotCalled
    /\ config.state = "returned"
    /\ \E r \in {None} \cup {Some(v) : v \in AssignedStrs} :
        config' = [config EXCEPT !.remote = r]
    /\ UNCHANGED <<config_kwargs, config_file, file_args, imageVars, refVars, targetVars, optionsVars, metaVars, concVars, loadVars, execVars>>

\* config.path_definitions.pop() / .clear() / config.path_definitions = []
SetPathDefinitions ==
    /\ config # NotCalled
    /\ config.state = "returned"
    /\ \/ /\ config.path_definitions # <<>>
          /\ config' = [config EXCEPT !.path_definitions =
                            SubSeq(@, 1, Len(@) - 1)]
       \/ config' = [config EXCEPT !.path_definitions = <<>>]
    /\ UNCHANGED <<config_kwargs, config_file, file_args, imageVars, refVars, targetVars, optionsVars, metaVars, concVars, loadVars, execVars>>

\* config.path_definitions[i].is_remote = b
SetEntryIsRemote ==
    /\ config # NotCalled
    /\ config.state = "returned"
    /\ \E i \in 1..Len(config.path_definitions), b \in BOOLEAN :
        config' = [config EXCEPT !.path_definitions[i].is_remote = b]
    /\ UNCHANGED <<config_kwargs, config_file, file_args, imageVars, refVars, targetVars, optionsVars, metaVars, concVars, loadVars, execVars>>

NextConfigAssign ==
    \/ Construct
    \/ FromFile
    \/ SetRemote
    \/ SetPathDefinitions
    \/ SetEntryIsRemote

SpecConfigAssign == InitConfigAssign /\ [][NextConfigAssign]_vars

----------------------------------------------------------------------------
(* ConfigurationLoader *)

MsgDirectoryNotExist == "Directory does not exist"
MsgNotADirectory == "Path is not a directory"
MsgCannotRead == "Cannot read directory"
MsgRequiredNotFound == "Required configuration file not found"
MsgFailedToLoadConfiguration == "Failed to load configuration: "
WarnGitAuth == "Git authentication may be required but no token found"
WarnNotWritable == "Directory is not writable, metadata file may fail to write"

\* Path.resolve(): a relative path is taken from the working directory, and
\* "." and ".." are folded away
Cwd == <<"w">>

RECURSIVE Normalize(_, _)
Normalize(parts, acc) ==
    IF parts = <<>> THEN acc
    ELSE IF Head(parts) = "." THEN Normalize(Tail(parts), acc)
    ELSE IF Head(parts) = ".."
    THEN Normalize(Tail(parts), IF acc = <<>> THEN <<>> ELSE SubSeq(acc, 1, Len(acc) - 1))
    ELSE Normalize(Tail(parts), Append(acc, Head(parts)))

resolve(path) ==
    [absolute |-> TRUE,
     parts |-> Normalize(IF path.absolute THEN path.parts ELSE Cwd \o path.parts, <<>>)]

\* _validate_directory with is_dir() asked first
validate_directory_dirFirst(dir) ==
    IF dir.kind # "dir" THEN Raise("ConfigurationError", {MsgNotADirectory})
    ELSE IF ~dir.readable THEN Raise("ConfigurationError", {MsgCannotRead})
    ELSE [state |-> "returned"]

\* _validate_directory: exists(), is_dir(), os.access(R_OK), in this order;
\* FileNotFoundError is the package's exception
validate_directory(dir) ==
    IF dir.kind = "missing" THEN Raise("FileNotFoundError", {MsgDirectoryNotExist})
    ELSE IF dir.kind # "dir" THEN Raise("ConfigurationError", {MsgNotADirectory})
    ELSE IF ~dir.readable THEN Raise("ConfigurationError", {MsgCannotRead})
    ELSE [state |-> "returned"]

\* _load_configuration, first half: config_path.exists()
config_path_exists(file) == file.kind # "absent"

\* the second half without its except clause
read_configuration_unwrapped(file) == from_file(file)

\* _load_configuration, second half: from_file, a ValueError re-raised as
\* ConfigurationError with the ValueError's text after the prefix
read_configuration(file) ==
    LET made == from_file(file)
    IN  IF made.state = "raised" /\ made.error = "ValueError"
        THEN Raise("ConfigurationError", {MsgFailedToLoadConfiguration} \cup made.msgs)
        ELSE made

\* _create_context with the directory kept as given
create_context_unresolved(directory, configuration, target, bake_args) ==
    [state |-> "returned",
     directory |-> directory,
     configuration |-> configuration,
     target |-> target,
     options |-> BuildOptions([args |-> bake_args])]

\* _create_context: BuildOptions(args=bake_args), BakeContext(...)
create_context(directory, configuration, target, bake_args) ==
    [state |-> "returned",
     directory |-> resolve(directory),
     configuration |-> configuration,
     target |-> target,
     options |-> BuildOptions([args |-> bake_args])]

\* BakeContext.requires_git_auth
requires_git_auth(bake_context) ==
    has_remote_files(bake_context.configuration.path_definitions)

\* `bake_args or []`
OrEmpty(bake_args) == IF bake_args.some THEN bake_args.val ELSE <<>>

\* validate_context that refuses a directory it cannot write
validate_context_strict(bake_context, loader_settings, dir) ==
    IF ~(dir.kind # "missing" /\ dir.writable)
    THEN [outcome |-> Raise("ConfigurationError", {WarnNotWritable}),
          context |-> bake_context, settings |-> loader_settings]
    ELSE [outcome |-> [state |-> "returned", warnings |-> {}],
          context |-> bake_context, settings |-> loader_settings]

\* validate_context: two checks that only log; the context and the settings
\* come back as they went in
validate_context(bake_context, loader_settings, dir) ==
    [outcome |->
        [state |-> "returned",
         warnings |->
            (IF /\ requires_git_auth(bake_context)
                /\ ~loader_settings.is_ci
                /\ ~(loader_settings.git_auth_token.some
                     /\ loader_settings.git_auth_token.val # <<>>)
             THEN {WarnGitAuth} ELSE {})
            \cup (IF ~(dir.kind # "missing" /\ dir.writable)
                  THEN {WarnNotWritable} ELSE {})],
     context |-> bake_context,
     settings |-> loader_settings]

----------------------------------------------------------------------------
(* Specification SpecLoad: load_bake_context step by step, the configuration
   file possibly removed meanwhile, then validate_context *)

Dirs ==
    {[kind |-> "missing", readable |-> FALSE, writable |-> FALSE]}
    \cup {[kind |-> k, readable |-> r, writable |-> w] :
            k \in {"file", "dir"}, r \in BOOLEAN, w \in BOOLEAN}

LoadFiles ==
    {f \in ConfigFiles :
        f.kind = "object" =>
            /\ ~Has(f.data, "path_definitions")
            /\ Has(f.data, "remote") => f.data.remote \in {None, Some(<<"r">>)}
            /\ Has(f.data, "pathDefinitions") =>
                /\ Len(f.data.pathDefinitions) <= 1
                /\ \A i \in 1..Len(f.data.pathDefinitions) :
                    Has(f.data.pathDefinitions[i], "filePath")
                        => f.data.pathDefinitions[i].filePath \in {<<>>, <<"f">>}}

Directories ==
    {[absolute |-> TRUE, parts |-> <<"w", "d">>],
     [absolute |-> FALSE, parts |-> <<"d">>],
     [absolute |-> FALSE, parts |-> <<".", "e", "..", "d">>]}

LoadTargets == {None, Some(<<"t">>)}
LoadBakeArgs == {None, Some(<<>>), Some(<<<<"-", "a">>>>), Some(<<<<"-", "a">>, <<"-", "b">>>>)}

SettingsValues ==
    {[is_ci |-> c, git_auth_token |-> k] :
        c \in BOOLEAN, k \in {None, Some(<<>>), Some(<<"k">>)}}

InitLoad ==
    /\ disk \in {k \in [dir : Dirs, config_file : LoadFiles] :
                    k.dir.kind # "dir" => k.config_file.kind = "absent"}
    /\ load_args \in {[directory |-> d, target |-> g, bake_args |-> a] :
                        d \in Directories, g \in LoadTargets, a \in LoadBakeArgs}
    /\ settings \in SettingsValues
    /\ loader = [pc |-> "start", steps |-> <<>>, configuration |-> NotCalled]
    /\ context = NotCalled
    /\ validation = NotCalled
    /\ ImageIdle /\ RefIdle /\ ConfigIdle /\ TargetIdle /\ OptionsIdle /\ MetaIdle /\ ConcIdle /\ ExecIdle

NotLoad == <<imageVars, refVars, configVars, targetVars, optionsVars, metaVars, concVars, execVars>>

\* self._validate_directory(directory)
ValidateDirectory ==
    /\ loader # NotCalled
    /\ loader.pc = "start"
    /\ LET checked == validate_directory(disk.dir)
       IN  IF checked.state = "raised"
           THEN /\ context' = checked
                /\ loader' = [loader EXCEPT !.pc = "raised",
                                            !.steps = Append(@, "validate_directory")]
           ELSE /\ context' = context
                /\ loader' = [loader EXCEPT !.pc = "validated",
                                            !.steps = Append(@, "validate_directory")]
    /\ UNCHANGED <<disk, load_args, settings, validation, NotLoad>>

\* _load_configuration up to and including `if not config_path.exists()`
ConfigPathExists ==
    /\ loader # NotCalled
    /\ loader.pc = "validated"
    /\ IF config_path_exists(disk.config_file)
       THEN /\ context' = context
            /\ loader' = [loader EXCEPT !.pc = "exists",
                                        !.steps = Append(@, "load_configuration")]
       ELSE /\ context' = Raise("FileNotFoundError", {MsgRequiredNotFound})
            /\ loader' = [loader EXCEPT !.pc = "raised",
                                        !.steps = Append(@, "load_configuration")]
    /\ UNCHANGED <<disk, load_args, settings, validation, NotLoad>>

\* the rest of _load_configuration: the file is opened and read now
ReadConfiguration ==
    /\ loader # NotCalled
    /\ loader.pc = "exists"
    /\ LET made == read_configuration(disk.config_file)
       IN  IF made.state = "raised"
           THEN /\ context' = made
                /\ loader' = [loader EXCEPT !.pc = "raised"]
           ELSE /\ context' = context
                /\ loader' = [loader EXCEPT !.pc = "loaded", !.configuration = made]
    /\ UNCHANGED <<disk, load_args, settings, validation, NotLoad>>

\* context = self._create_context(directory, configuration, target, bake_args or [])
CreateContext ==
    /\ loader # NotCalled
    /\ loader.pc = "loaded"
    /\ context' = create_context(load_args.directory, loader.configuration,
                                 load_args.target, OrEmpty(load_args.bake_args))
    /\ loader' = [loader EXCEPT !.pc = "done", !.steps = Append(@, "create_context")]
    /\ UNCHANGED <<disk, load_args, settings, validation, NotLoad>>

\* another process removes the configuration file while the loader runs
RemoveConfigFile ==
    /\ loader # NotCalled
    /\ loader.pc \in {"validated", "exists"}
    /\ disk.config_file.kind # "absent"
    /\ disk' = [disk EXCEPT !.config_file = [kind |-> "absent"]]
    /\ UNCHANGED <<load_args, settings, loader, context, validation, NotLoad>>

\* loader.validate_context(context)
ValidateContext ==
    /\ loader # NotCalled
    /\ loader.pc = "done"
    /\ validation = NotCalled
    /\ LET done == validate_context(context, settings, disk.dir)
       IN  /\ validation' = done.outcome
           /\ context' = done.context
           /\ settings' = done.settings
    /\ UNCHANGED <<disk, load_args, loader, NotLoad>>

NextLoad ==
    \/ ValidateDirectory
    \/ ConfigPathExists
    \/ ReadConfiguration
    \/ CreateContext
    \/ RemoveConfigFile
    \/ ValidateContext

SpecLoad == InitLoad /\ [][NextLoad]_vars

----------------------------------------------------------------------------
(* DockerBakeExecutor *)

MsgTargetMustBeSpecified == "Target must be specified for bake execution"
MsgDockerBakeFailed == "Docker bake failed: "
MsgValidDictionary == "Input should be a valid dictionary"

Docker == <<"d", "o", "c", "k", "e", "r">>
Buildx == <<"b", "u", "i", "l", "d", "x">>
Bake == <<"b", "a", "k", "e">>

\* " ".join(parts)
RECURSIVE join(_)
join(parts) ==
    IF parts = <<>> THEN <<>>
    ELSE IF Len(parts) = 1 THEN parts[1]
    ELSE parts[1] \o <<" ">> \o join(Tail(parts))

\* `cmd for cmd in cmd_parts if cmd is not None` for the last part, the target
NotNone(target) == IF target.some THEN <<target.val>> ELSE <<>>

\* _build_command with the option arguments put before the file arguments
build_command_optionsFirst(ctx) ==
    join(<<Docker, Buildx, Bake>>
         \o to_args(ctx.options).result
         \o get_bake_file_args(ctx.configuration)
         \o NotNone(ctx.target))

\* _build_command
build_command(ctx) ==
    join(<<Docker, Buildx, Bake>>
         \o get_bake_file_args(ctx.configuration)
         \o to_args(ctx.options).result
         \o NotNone(ctx.target))

\* _run_bake_command: ctx.run(cmd, warn=True) returns a result that failed or
\* not, or raises itself (the working directory is gone, say)
run_bake_command(run) ==
    IF run = "raises" THEN Raise("OSError", {})
    ELSE IF run = "failed" THEN Raise("DockerError", {MsgDockerBakeFailed})
    ELSE [state |-> "returned"]

\* _load_build_metadata: {} unless the file is there, opens and parses; then
\* whatever json.load returns, mapping or not
EmptyDict == JObject(<<>>)

load_build_metadata(file) ==
    IF file.kind # "json" THEN EmptyDict ELSE file.data

\* Optional[float] and Optional[str] fields of BuildResult
NoDuration == [some |-> FALSE, val |-> 0]
Duration(d) == [some |-> TRUE, val |-> d]
NoMessage == [some |-> FALSE, text |-> {}]
Message(msgs) == [some |-> TRUE, text |-> msgs]

\* BuildResult(**d): metadata is Dict[str, Any], so a supplied value that is
\* not a mapping fails validation; fields left out take their defaults
BuildResult(d) ==
    IF Has(d, "metadata") /\ d.metadata.type # "object"
    THEN Raise("ValidationError", {MsgValidDictionary})
    ELSE [state |-> "returned",
          target |-> d.target,
          images |-> IF Has(d, "images") THEN d.images ELSE <<>>,
          success |-> d.success,
          duration_seconds |-> IF Has(d, "duration_seconds") THEN d.duration_seconds ELSE NoDuration,
          metadata |-> IF Has(d, "metadata") THEN d.metadata ELSE EmptyDict,
          error_message |-> IF Has(d, "error_message") THEN d.error_message ELSE NoMessage]

\* _create_build_result(bake_context, duration, success=True)
create_build_result_success(ctx, duration, file) ==
    LET loaded == load_build_metadata(file)
    IN  BuildResult([target |-> ctx.target.val,
                     images |-> extract_images_from_metadata(loaded).val,
                     success |-> TRUE,
                     duration_seconds |-> Duration(duration),
                     metadata |-> loaded])

\* _create_build_result(bake_context, duration, success=False, error=str(e))
create_build_result_failure(ctx, duration, error) ==
    BuildResult([target |-> ctx.target.val,
                 success |-> FALSE,
                 duration_seconds |-> Duration(duration),
                 error_message |-> Message(error)])

\* `not bake_context.target` that only looks for None
target_missing_noneOnly(target) == ~target.some

\* `not bake_context.target`: None and "" are falsy
target_missing(target) == ~target.some \/ target.val = <<>>

----------------------------------------------------------------------------
(* Specification SpecExecute: execute_bake step by step *)

MaxElapsed == 1

ExecConfigurations ==
    {BakeConfiguration([path_definitions |-> <<[file_path |-> <<"f">>, is_remote |-> FALSE]>>]),
     BakeConfiguration([remote |-> Some(<<"r">>),
                        path_definitions |-> <<[file_path |-> <<"g">>, is_remote |-> TRUE],
                                               [file_path |-> <<"f">>, is_remote |-> FALSE]>>]),
     BakeConfiguration([remote |-> Some(<<"r">>),
                        path_definitions |-> <<[file_path |-> <<"f">>, is_remote |-> FALSE]>>])}

ExecTargets == {None, Some(<<>>), Some(<<"t">>)}

ExecOptions ==
    {BuildOptions([args |-> a]) : a \in {<<>>, <<<<"-", "a">>>>, <<<<"-", "a">>, <<"-", "b">>>>}}
    \cup {BuildOptions([metadata_file |-> <<"m">>, args |-> <<<<"-", "b">>>>])}

BakeContexts ==
    {[state |-> "returned",
      directory |-> [absolute |-> TRUE, parts |-> <<"w", "d">>],
      configuration |-> c, target |-> g, options |-> o] :
        c \in ExecConfigurations, g \in ExecTargets, o \in ExecOptions}

\* what is at directory / metadata_file once the command has run
MetadataFileStates ==
    {[kind |-> "missing"], [kind |-> "unreadable"], [kind |-> "invalid_json"]}
    \cup {[kind |-> "json", data |-> v] :
            v \in {JObject(<<td>>) : td \in TargetDatas(1)}
                  \cup {EmptyDict, JList, JNull}}

InitExecute ==
    /\ given_context \in BakeContexts
    /\ host \in [run : {"ok", "failed", "raises"}, metadata_file : MetadataFileStates]
    /\ exec = [pc |-> "start", cmd |-> NotCalled, duration |-> 0,
               caught |-> NotCalled, effects |-> <<>>]
    /\ build_result = NotCalled
    /\ ImageIdle /\ RefIdle /\ ConfigIdle /\ TargetIdle /\ OptionsIdle /\ MetaIdle /\ ConcIdle /\ LoadIdle

NotExec == <<imageVars, refVars, configVars, targetVars, optionsVars, metaVars, concVars, loadVars>>

\* if not bake_context.target: raise ValueError(...)
CheckTarget ==
    /\ exec # NotCalled
    /\ exec.pc = "start"
    /\ IF target_missing(given_context.target)
       THEN /\ build_result' = Raise("ValueError", {MsgTargetMustBeSpecified})
            /\ exec' = [exec EXCEPT !.pc = "raised"]
       ELSE /\ build_result' = build_result
            /\ exec' = [exec EXCEPT !.pc = "build"]
    /\ UNCHANGED <<given_context, host, NotExec>>

\* cmd = self._build_command(bake_context)
BuildCommand ==
    /\ exec # NotCalled
    /\ exec.pc = "build"
    /\ exec' = [exec EXCEPT !.pc = "run",
                            !.cmd = [state |-> "returned", val |-> build_command(given_context)],
                            !.effects = Append(@, "build_command")]
    /\ UNCHANGED <<given_context, host, build_result, NotExec>>

\* self._run_bake_command(cmd, bake_context.directory), taking some time
RunBakeCommand ==
    /\ exec # NotCalled
    /\ exec.pc = "run"
    /\ \E elapsed \in 0..MaxElapsed :
        LET ran == run_bake_command(host.run)
        IN  exec' = [exec EXCEPT !.pc = IF ran.state = "raised" THEN "except" ELSE "result",
                                 !.caught = IF ran.state = "raised" THEN ran ELSE @,
                                 !.duration = elapsed,
                                 !.effects = Append(@, "run_bake_command")]
    /\ UNCHANGED <<given_context, host, build_result, NotExec>>

\* result = self._create_build_result(bake_context, duration, success=True)
CreateSuccessResult ==
    /\ exec # NotCalled
    /\ exec.pc = "result"
    /\ LET made == create_build_result_success(given_context, exec.duration, host.metadata_file)
       IN  IF made.state = "raised"
           THEN /\ exec' = [exec EXCEPT !.pc = "except", !.caught = made,
                                        !.effects = Append(@, "load_build_metadata")]
                /\ build_result' = build_result
           ELSE /\ exec' = [exec EXCEPT !.pc = "done",
                                        !.effects = Append(@, "load_build_metadata")]
                /\ build_result' = made
    /\ UNCHANGED <<given_context, host, NotExec>>

\* except Exception as e: the failed result is built from str(e) and returned
CreateFailureResult ==
    /\ exec # NotCalled
    /\ exec.pc = "except"
    /\ LET made == create_build_result_failure(given_context, exec.duration, exec.caught.msgs)
       IN  IF made.state = "raised"
           THEN exec' = [exec EXCEPT !.pc = "raised"]
           ELSE exec' = [exec EXCEPT !.pc = "done"]
    /\ build_result' = create_build_result_failure(given_context, exec.duration, exec.caught.msgs)
    /\ UNCHANGED <<given_context, host, NotExec>>

NextExecute ==
    \/ CheckTarget
    \/ BuildCommand
    \/ RunBakeCommand
    \/ CreateSuccessResult
    \/ CreateFailureResult

SpecExecute == InitExecute /\ [][NextExecute]_vars

----------------------------------------------------------------------------
(* Properties of FileReference and BakeConfiguration *)

Whitespace == {" ", "\t", "\n"}
Blank(s) == \A i \in 1..Len(s) : s[i] \in Whitespace

\* the remote handed in is None, empty, whitespace-only or not handed in
RemoteAbsent(d) == ~Has(d, "remote") \/ ~d.remote.some \/ Blank(d.remote.val)

\* t is s without its leading and trailing whitespace (s not blank)
IsStripOf(t, s) ==
    \E i, j \in 1..Len(s) :
        /\ t = SubSeq(s, i, j)
        /\ s[i] \notin Whitespace /\ s[j] \notin Whitespace
        /\ \A k \in 1..Len(s) : (k < i \/ k > j) => s[k] \in Whitespace

\* every entry handed in is a FileReference value
AreFileReferences(l) ==
    \A i \in 1..Len(l) : Has(l[i], "file_path") /\ Has(l[i], "is_remote") /\ l[i].file_path # <<>>

HasRemoteEntry(l) == \E i \in 1..Len(l) : Has(l[i], "is_remote") /\ l[i].is_remote

Constructed == config # NotCalled /\ config.state = "returned"

\* the keyword arguments or the JSON object the configuration was made from
Supplied == IF config_kwargs # NotCalled THEN config_kwargs ELSE config_file.data

\* C1: constructing a BakeConfiguration whose path_definitions hold an entry
\* with is_remote = true fails, with "Remote URL is required ..." as the error
\* when the entries are FileReference values, if the remote is None, empty,
\* whitespace-only or not given, and does not fail when the remote is
\* non-blank; so every constructed BakeConfiguration with a remote entry has
\* a remote.
C1_RemoteRequired ==
    /\ (/\ config_kwargs # NotCalled
        /\ config # NotCalled
        /\ Has(config_kwargs, "path_definitions")
        /\ HasRemoteEntry(config_kwargs.path_definitions))
       => IF RemoteAbsent(config_kwargs)
          THEN /\ config.state = "raised"
               /\ config.error = "ValidationError"
               /\ AreFileReferences(config_kwargs.path_definitions)
                    => config.msgs = {MsgRemoteRequired}
          ELSE /\ AreFileReferences(config_kwargs.path_definitions)
                    => config.state = "returned"
               /\ config.state = "raised" => MsgRemoteRequired \notin config.msgs
    /\ Constructed
       => ((\E i \in 1..Len(config.path_definitions) : config.path_definitions[i].is_remote)
            => (config.remote.some /\ ~Blank(config.remote.val)))

C1_Witness ==
    /\ config_kwargs # NotCalled
    /\ config # NotCalled
    /\ config.state = "raised"
    /\ MsgRemoteRequired \in config.msgs
    /\ Has(config_kwargs, "remote")
    /\ config_kwargs.remote.some
    /\ Len(config_kwargs.remote.val) > 1

\* C2: every BakeConfiguration produced by construction or by from_file has at
\* least one entry in path_definitions; an empty or unsupplied list fails
\* with "List should have at least 1 item".
C2_AtLeastOneEntry ==
    /\ Constructed => Len(config.path_definitions) >= 1
    /\ (/\ config # NotCalled
        /\ (config_kwargs # NotCalled \/ config_file.kind = "object")
        /\ (\/ ~(Has(Supplied, "path_definitions") \/ Has(Supplied, "pathDefinitions"))
            \/ (config_kwargs # NotCalled /\ Has(Supplied, "path_definitions")
                    /\ Supplied.path_definitions = <<>>)
            \/ (config_kwargs = NotCalled /\ Has(Supplied, "pathDefinitions")
                    /\ Supplied.pathDefinitions = <<>>)))
       => (config.state = "raised" /\ MsgTooShort \in config.msgs)

\* C3: the stored remote is absent when the remote handed in is None, empty,
\* whitespace-only or not given, and otherwise is the remote handed in without
\* its leading and trailing whitespace; it is never empty and never starts or
\* ends with whitespace.
C3_RemoteNormalized ==
    Constructed =>
        /\ IF RemoteAbsent(Supplied)
           THEN config.remote = None
           ELSE config.remote.some /\ IsStripOf(config.remote.val, Supplied.remote.val)
        /\ config.remote.some =>
            /\ config.remote.val # <<>>
            /\ config.remote.val[1] \notin Whitespace
            /\ config.remote.val[Len(config.remote.val)] \notin Whitespace

C3_Witness ==
    /\ Constructed
    /\ config_kwargs # NotCalled
    /\ Has(config_kwargs, "remote")
    /\ config_kwargs.remote.some
    /\ Len(config_kwargs.remote.val) = 3
    /\ config.remote = Some(<<"r">>)

C3_WitnessBlank ==
    /\ Constructed
    /\ config_kwargs # NotCalled
    /\ Has(config_kwargs, "remote")
    /\ config_kwargs.remote.some
    /\ Len(config_kwargs.remote.val) > 1
    /\ config.remote = None

\* C4: FileReference construction fails with "file_path cannot be empty" iff
\* file_path is the empty string; every other file_path, whitespace-only
\* included, is stored unchanged together with is_remote.
C4_FilePathEmptyOnly ==
    (/\ file_ref # NotCalled
     /\ Has(ref_kwargs, "file_path")
     /\ Has(ref_kwargs, "is_remote"))
    => IF ref_kwargs.file_path = <<>>
       THEN file_ref.state = "raised" /\ file_ref.msgs = {MsgFilePathEmpty}
       ELSE /\ file_ref.state = "returned"
            /\ file_ref.file_path = ref_kwargs.file_path
            /\ file_ref.is_remote = ref_kwargs.is_remote

C4_Witness ==
    /\ file_ref # NotCalled
    /\ file_ref.state = "returned"
    /\ Len(file_ref.file_path) > 1
    /\ Blank(file_ref.file_path)
    /\ file_ref.is_remote

\* C10: get_bake_file_args returns the pair "--file", remote first iff the
\* configuration has a remote entry and a remote, followed by one pair
\* "--file", file_path per entry of path_definitions in configuration order.
C10_FileArgs ==
    (Constructed /\ file_args # NotCalled) =>
        LET pd == config.path_definitions
            args == file_args.val
            lead == IF (\E i \in 1..Len(pd) : pd[i].is_remote) /\ config.remote.some
                    THEN 1 ELSE 0
        IN  /\ Len(args) = 2 * lead + 2 * Len(pd)
            /\ lead = 1 => (args[1] = FileFlag /\ args[2] = config.remote.val)
            /\ \A i \in 1..Len(pd) :
                /\ args[2 * lead + 2 * i - 1] = FileFlag
                /\ args[2 * lead + 2 * i] = pd[i].file_path

C10_Witness ==
    /\ Constructed
    /\ file_args # NotCalled
    /\ config.remote.some
    /\ Len(config.path_definitions) = 2
    /\ config.path_definitions[1].is_remote
    /\ ~config.path_definitions[2].is_remote
    /\ config.path_definitions[1].file_path # config.path_definitions[2].file_path

C10_WitnessLocalOnly ==
    /\ Constructed
    /\ file_args # NotCalled
    /\ config.remote.some
    /\ Len(config.path_definitions) = 2
    /\ \A i \in 1..2 : ~config.path_definitions[i].is_remote
    /\ Len(file_args.val) = 4

\* C11: for every constructed BakeConfiguration the result of
\* get_bake_file_args has length 2 * (1 if has_remote_files else 0)
\* + 2 * len(path_definitions), "--file" at every even 0-based index and the
\* remote or a file_path at every odd one.
C11_FileArgsShape ==
    (Constructed /\ file_args # NotCalled) =>
        LET pd == config.path_definitions
            args == file_args.val
            hasRemote == \E i \in 1..Len(pd) : pd[i].is_remote
        IN  /\ Len(args) = 2 * (IF hasRemote THEN 1 ELSE 0) + 2 * Len(pd)
            /\ \A k \in 1..Len(args) :
                IF k % 2 = 1
                THEN args[k] = FileFlag
                ELSE \/ config.remote.some /\ args[k] = config.remote.val
                     \/ \E i \in 1..Len(pd) : args[k] = pd[i].file_path

C11_Witness ==
    /\ Constructed
    /\ file_args # NotCalled
    /\ \E i \in 1..Len(config.path_definitions) : config.path_definitions[i].is_remote
    /\ Len(file_args.val) = 6

Loaded == config_file # NotCalled /\ config # NotCalled

\* an element of pathDefinitions lacks filePath or isRemote
LacksField(data) ==
    /\ Has(data, "pathDefinitions")
    /\ \E i \in 1..Len(data.pathDefinitions) :
        {"filePath", "isRemote"} \ DOMAIN data.pathDefinitions[i] # {}

\* C14: from_file fails with ValueError only, with "Configuration file not
\* found" iff the file does not exist, "Invalid JSON" iff the content is not
\* JSON, and "Failed to load configuration" for every other failure (an
\* element lacking filePath or isRemote, a top-level value that is not an
\* object, a schema or invariant violation).
C14_FromFileErrors ==
    Loaded =>
        /\ config_file.kind \in {"absent", "invalid_json", "array"} => config.state = "raised"
        /\ (config_file.kind = "object" /\ LacksField(config_file.data)) => config.state = "raised"
        /\ (/\ config_file.kind = "object"
            /\ DOMAIN config_file.data = {"pathDefinitions"}
            /\ ~LacksField(config_file.data)
            /\ \/ config_file.data.pathDefinitions = <<>>
               \/ \E i \in 1..Len(config_file.data.pathDefinitions) :
                    \/ config_file.data.pathDefinitions[i].isRemote
                    \/ config_file.data.pathDefinitions[i].filePath = <<>>)
           => config.state = "raised"
        /\ config.state = "raised" =>
            /\ config.error = "ValueError"
            /\ MsgFileNotFound \in config.msgs <=> config_file.kind = "absent"
            /\ MsgInvalidJson \in config.msgs <=> config_file.kind = "invalid_json"
            /\ MsgFailedToLoad \in config.msgs <=> config_file.kind \notin {"absent", "invalid_json"}

C14_Witness ==
    /\ Loaded
    /\ config_file.kind = "object"
    /\ LacksField(config_file.data)
    /\ config.state = "raised"
    /\ config.msgs = {MsgFailedToLoad}

\* C15: loading {remote, pathDefinitions: [{filePath, isRemote}, ...]} gives
\* what BakeConfiguration(remote, path_definitions=[{file_path, is_remote},
\* ...]) gives: the same value, entries in document order, or a failure for
\* the same reasons.
C15_FromFileIsConstruction ==
    (/\ Loaded
     /\ config_file.kind = "object"
     /\ Has(config_file.data, "pathDefinitions")
     /\ ~Has(config_file.data, "path_definitions")
     /\ ~LacksField(config_file.data))
    => LET data == config_file.data
           renamed == [i \in 1..Len(data.pathDefinitions) |->
                        [file_path |-> data.pathDefinitions[i].filePath,
                         is_remote |-> data.pathDefinitions[i].isRemote]]
           direct == BakeConfiguration(
                        IF Has(data, "remote")
                        THEN [remote |-> data.remote, path_definitions |-> renamed]
                        ELSE [path_definitions |-> renamed])
       IN  IF direct.state = "returned"
           THEN config = direct
           ELSE /\ config.state = "raised"
                /\ config.msgs = direct.msgs \cup {MsgFailedToLoad}

C15_Witness ==
    /\ Loaded
    /\ config.state = "returned"
    /\ Has(config_file.data, "pathDefinitions")
    /\ Len(config.path_definitions) = 2
    /\ config.path_definitions[1] # config.path_definitions[2]
    /\ config.remote.some

----------------------------------------------------------------------------
(* Properties of the image-name parser (checked under SpecImage) *)

Returned == image # NotCalled /\ image.state = "returned"
Raised(msg) == image # NotCalled /\ image.state = "raised" /\ image.msg = msg

\* s = np : t with no ':' in t, described by the position i of that ':'
IsLastColon(s, i) == s[i] = ":" /\ \A j \in (i + 1)..Len(s) : s[j] # ":"
\* np = fs / rest with no '/' in fs, described by the position k of that '/'
IsFirstSlash(np, k) == np[k] = "/" /\ \A j \in 1..(k - 1) : np[j] # "/"

\* C5: for an accepted input, with name_part the text before the last ':' and
\* the tag the text after it: without '/' in name_part the name is name_part
\* and there is no registry; otherwise the first segment is the registry and
\* the name the text after the first '/' iff the segment contains '.' or ':'
\* or equals "localhost", and else there is no registry and the name is the
\* whole name_part.
C5_RegistryDetection ==
    Returned =>
        \E i \in 1..Len(full_name) :
            /\ IsLastColon(full_name, i)
            /\ LET np == SubSeq(full_name, 1, i - 1)
               IN  /\ image.tag = SubSeq(full_name, i + 1, Len(full_name))
                   /\ IF \A k \in 1..Len(np) : np[k] # "/"
                      THEN image.name = np /\ image.registry = None
                      ELSE \E k \in 1..Len(np) :
                            /\ IsFirstSlash(np, k)
                            /\ LET fs == SubSeq(np, 1, k - 1)
                                   rest == SubSeq(np, k + 1, Len(np))
                               IN  IF \/ \E j \in 1..Len(fs) : fs[j] \in {".", ":"}
                                      \/ fs = Localhost
                                   THEN image.registry = Some(fs) /\ image.name = rest
                                   ELSE image.registry = None /\ image.name = np

C5_Witness ==
    /\ Returned
    /\ image.registry = Some(Localhost)
    /\ image.name # <<>>

C5_WitnessNoRegistry ==
    /\ Returned
    /\ image.registry = None
    /\ Contains(image.name, "/")

\* C6: the parser fails with "Image name must include tag" exactly when the
\* input has no ':' or the text after its last ':' contains a '/'.
C6_MustIncludeTag ==
    image # NotCalled =>
        (Raised(MsgMustIncludeTag) <=>
            \/ \A i \in 1..Len(full_name) : full_name[i] # ":"
            \/ \E i \in 1..Len(full_name) :
                /\ IsLastColon(full_name, i)
                /\ \E j \in (i + 1)..Len(full_name) : full_name[j] = "/")

C6_Witness ==
    /\ Raised(MsgMustIncludeTag)
    /\ Contains(full_name, ":")
    /\ Len(full_name) > 9
    /\ SubSeq(full_name, 1, 9) = Localhost

\* C7: the parser fails with "Tag cannot be empty" exactly when the input ends
\* with ':'; such an input never gets the "must include tag" message.
C7_TagCannotBeEmpty ==
    image # NotCalled =>
        /\ Raised(MsgTagEmpty) <=> (Len(full_name) > 0 /\ full_name[Len(full_name)] = ":")
        /\ ~(Raised(MsgTagEmpty) /\ Raised(MsgMustIncludeTag))

C7_Witness ==
    /\ Raised(MsgTagEmpty)
    /\ Contains(full_name, "/")
    /\ Len(full_name) > 1

\* C8: round trip: the full_name of the ImageInfo parsed from s is s.
C8_RoundTrip ==
    (Returned /\ rendered # NotCalled) => rendered.val = full_name

C8_Witness ==
    /\ Returned
    /\ rendered # NotCalled
    /\ image.registry.some
    /\ Contains(image.name, "/")

\* C9: every ImageInfo the parser returns has a non-empty name and a
\* non-empty tag.
C9_NameAndTagNonEmpty ==
    Returned => (image.name # <<>> /\ image.tag # <<>>)

\* C17: every failure of from_full_name is a ValueError whose message is one
\* of the two parser messages followed by the complete input, unchanged.
C17_ErrorCarriesInput ==
    (image # NotCalled /\ image.state = "raised") =>
        /\ image.error = "ValueError"
        /\ image.msg \in {MsgMustIncludeTag, MsgTagEmpty}
        /\ image.arg = full_name

C17_Witness ==
    /\ Raised(MsgTagEmpty)
    /\ Len(image.arg) > 2
    /\ Contains(image.arg, "/")

----------------------------------------------------------------------------
(* Properties of BuildTarget (checked under SpecTarget) *)

\* C20: BuildTarget construction fails with "Target name cannot be empty" when
\* the name is empty or whitespace-only, and otherwise stores the name without
\* its leading and trailing whitespace.
C20_TargetName ==
    (build_target # NotCalled /\ Has(target_kwargs, "name")) =>
        IF Blank(target_kwargs.name)
        THEN build_target.state = "raised" /\ build_target.msgs = {MsgTargetNameEmpty}
        ELSE /\ build_target.state = "returned"
             /\ IsStripOf(build_target.name, target_kwargs.name)
             /\ build_target.name # <<>>
             /\ build_target.name[1] \notin Whitespace
             /\ build_target.name[Len(build_target.name)] \notin Whitespace

C20_Witness ==
    /\ build_target # NotCalled
    /\ build_target.state = "raised"
    /\ Has(target_kwargs, "name")
    /\ Len(target_kwargs.name) > 1

C20_WitnessStripped ==
    /\ build_target # NotCalled
    /\ build_target.state = "returned"
    /\ Len(target_kwargs.name) = 4
    /\ Len(build_target.name) = 2

----------------------------------------------------------------------------
(* Properties of BuildOptions (checked under SpecOptions) *)

\* C16: to_args() returns "--metadata-file", metadata_file and then the
\* elements of args in order; metadata_file defaults to "metadata.json" and
\* args to the empty list; any number of calls leaves metadata_file and args
\* as constructed and returns the same list.
C16_ToArgs ==
    options # NotCalled =>
        LET file == IF Has(options_kwargs, "metadata_file")
                    THEN options_kwargs.metadata_file
                    ELSE <<"m", "e", "t", "a", "d", "a", "t", "a", ".", "j", "s", "o", "n">>
            given == IF Has(options_kwargs, "args") THEN options_kwargs.args ELSE <<>>
        IN  /\ options.metadata_file = file
            /\ options.args = given
            /\ to_args_calls > 0 =>
                /\ Len(to_args_result) = 2 + Len(given)
                /\ to_args_result[1] = MetadataFileFlag
                /\ to_args_result[2] = file
                /\ \A i \in 1..Len(given) : to_args_result[2 + i] = given[i]

C16_Witness ==
    /\ options # NotCalled
    /\ to_args_calls = 2
    /\ Len(options.args) = 2
    /\ options.args[1] # options.args[2]
    /\ Len(to_args_result) = 4

C16_WitnessDefaults ==
    /\ options # NotCalled
    /\ options_kwargs = <<>>
    /\ to_args_calls = 1
    /\ to_args_result = <<MetadataFileFlag, DefaultMetadataFile>>

----------------------------------------------------------------------------
(* Immutability (checked under SpecAssign) *)

\* C18: once constructed, a FileReference keeps its file_path and is_remote
\* and an ImageInfo returned by the parser keeps its name, tag and registry,
\* whatever a caller does (attribute assignment included).
C18_Immutable ==
    [][/\ (file_ref # NotCalled /\ file_ref.state = "returned") => file_ref' = file_ref
       /\ (image # NotCalled /\ image.state = "returned") => image' = image]_vars

----------------------------------------------------------------------------
(* Properties of _extract_images_from_metadata (checked under SpecMeta) *)

Extracted == images # NotCalled

\* a target whose value is a mapping and whose "image.name", when there is
\* one, is a string
TargetWellFormed(td) ==
    /\ td.type = "object"
    /\ Has(td.val, "image.name") => td.val["image.name"].type = "str"

WellFormed(md) ==
    /\ md.type = "object"
    /\ \A i \in 1..Len(md.val) : TargetWellFormed(md.val[i])

\* the k-th comma-separated candidate of s (k = 1 .. number of commas + 1)
Commas(s) == {i \in 1..Len(s) : s[i] = ","}
CommaAt(s, k) ==
    IF k = 0 THEN 0
    ELSE IF k > Cardinality(Commas(s)) THEN Len(s) + 1
    ELSE CHOOSE i \in Commas(s) : Cardinality({j \in Commas(s) : j < i}) = k - 1
CandidateAt(s, k) == SubSeq(s, CommaAt(s, k - 1) + 1, CommaAt(s, k) - 1)

\* the candidate without surrounding whitespace
Trimmed(c) == IF Blank(c) THEN <<>> ELSE CHOOSE t \in {SubSeq(c, i, j) : i, j \in 1..Len(c)} : IsStripOf(t, c)

\* the parsed candidates k, k+1, ... of s that from_full_name accepts
RECURSIVE AcceptedFrom(_, _)
AcceptedFrom(s, k) ==
    IF k > Cardinality(Commas(s)) + 1 THEN <<>>
    ELSE (IF Trimmed(CandidateAt(s, k)) # <<>>
             /\ from_full_name(Trimmed(CandidateAt(s, k))).state = "returned"
          THEN <<from_full_name(Trimmed(CandidateAt(s, k)))>>
          ELSE <<>>)
         \o AcceptedFrom(s, k + 1)

\* the same over the targets i, i+1, ... of a well-formed mapping
RECURSIVE AcceptedOfTargets(_, _)
AcceptedOfTargets(targets, i) ==
    IF i > Len(targets) THEN <<>>
    ELSE (IF Has(targets[i].val, "image.name")
          THEN AcceptedFrom(targets[i].val["image.name"].val, 1)
          ELSE <<>>)
         \o AcceptedOfTargets(targets, i + 1)

\* C12: for a mapping of well-formed targets the result is the sequence, in
\* mapping order and left to right within each "image.name", of the trimmed
\* non-empty candidates that from_full_name accepts; rejected and empty
\* candidates and targets without "image.name" contribute nothing.
C12_ExtractsAccepted ==
    (Extracted /\ WellFormed(metadata)) =>
        /\ images.state = "returned"
        /\ images.val = AcceptedOfTargets(metadata.val, 1)

\* {"t": {"image.name": "a:1,x, b:2"}} yields [a:1, b:2]
C12_Witness ==
    /\ Extracted
    /\ WellFormed(metadata)
    /\ Len(metadata.val) = 1
    /\ Len(images.val) = 2
    /\ images.val[1].name = <<"a">>
    /\ images.val[2].name = <<"b">>
    /\ Cardinality(Commas(metadata.val[1].val["image.name"].val)) = 2

\* C13: the extraction never raises, and returns the empty sequence when the
\* mapping is malformed beyond per-image parse failures, also when
\* well-formed targets precede the malformed one.
C13_MalformedGivesEmpty ==
    Extracted =>
        /\ images.state = "returned"
        /\ ~WellFormed(metadata) => images.val = <<>>

----------------------------------------------------------------------------
(* Concurrent invocations (checked under SpecConcurrent) *)

\* what the operation returns when it runs alone
Alone(request) ==
    CASE request.op = "from_full_name" -> from_full_name(request.arg.full_name)
      [] request.op = "get_bake_file_args" -> get_bake_file_args(request.arg)
      [] request.op = "to_args" -> to_args(request.arg).result
      [] request.op = "extract" -> extract_images_from_metadata(request.arg).val

\* C19: in every interleaving of concurrent callers each finished invocation
\* has returned what it returns when run alone on the same input, and has
\* left its input as it was.
C19_InterleavingIndependent ==
    \A c \in DOMAIN calls :
        calls[c].pc = "done" =>
            /\ calls[c].ret = Alone(requests[c])
            /\ calls[c].arg = requests[c].arg

\* an invocation of get_bake_file_args has returned its six arguments while
\* another invocation of the same function is in the middle of its loop
C19_Witness ==
    /\ calls # <<>>
    /\ requests[1].op = "get_bake_file_args"
    /\ requests[2].op = "get_bake_file_args"
    /\ calls[1].pc = "done"
    /\ Len(calls[1].ret) = 6
    /\ calls[2].pc = "loop"
    /\ calls[2].i = 2
    /\ Len(lists.args[2]) = 4

----------------------------------------------------------------------------
(* Shape of the parsed ImageInfo (checked under SpecImage) *)

\* C30: in every ImageInfo the parser returns, the tag is non-empty and has
\* neither ':' nor '/'; a registry, when present, is non-empty, has no '/'
\* and contains '.' or ':' or is "localhost"; and when there is no registry
\* and the name contains '/', the name's first segment has neither '.' nor
\* ':' and is not "localhost".
C30_ParsedShape ==
    Returned =>
        /\ image.tag # <<>>
        /\ \A i \in 1..Len(image.tag) : image.tag[i] \notin {":", "/"}
        /\ image.registry.some =>
            /\ image.registry.val # <<>>
            /\ \A i \in 1..Len(image.registry.val) : image.registry.val[i] # "/"
            /\ \/ \E i \in 1..Len(image.registry.val) : image.registry.val[i] \in {".", ":"}
               \/ image.registry.val = <<"l", "o", "c", "a", "l", "h", "o", "s", "t">>
        /\ (~image.registry.some /\ \E i \in 1..Len(image.name) : image.name[i] = "/") =>
            \E k \in 1..Len(image.name) :
                /\ IsFirstSlash(image.name, k)
                /\ \A j \in 1..(k - 1) : image.name[j] \notin {".", ":"}
                /\ SubSeq(image.name, 1, k - 1) # <<"l", "o", "c", "a", "l", "h", "o", "s", "t">>

C30_Witness ==
    /\ Returned
    /\ ~image.registry.some
    /\ Len(image.name) > 9
    /\ SubSeq(image.name, 1, 8) = SubSeq(Localhost, 1, 8)
    /\ image.name[9] = "/"

----------------------------------------------------------------------------
(* The BakeConfiguration invariant after construction (checked under
   SpecConfigAssign) *)

\* C22: in every state of a BakeConfiguration, after construction and any
\* assignment of remote, mutation of path_definitions or change of an
\* entry's is_remote, a configuration with a remote entry has a non-blank
\* remote, and path_definitions has at least one entry.
C22_InvariantKept ==
    Constructed =>
        /\ has_remote_files(config.path_definitions)
            => (config.remote.some /\ ~Blank(config.remote.val))
        /\ Len(config.path_definitions) >= 1

----------------------------------------------------------------------------
(* Properties of ConfigurationLoader (checked under SpecLoad) *)

LoadSteps == <<"validate_directory", "load_configuration", "create_context">>

\* load_bake_context raised this error with this message
LoadRaised(error, msg) ==
    /\ context # NotCalled
    /\ context.state = "raised"
    /\ context.error = error
    /\ msg \in context.msgs

\* _load_configuration has finished, by returning or by raising
LoadConfigurationDone ==
    /\ loader # NotCalled
    /\ \/ loader.pc \in {"loaded", "done"}
       \/ loader.pc = "raised" /\ Len(loader.steps) = 2

\* C21: load_bake_context runs directory validation, configuration load and
\* context creation in this order, a failing step ends the call with its
\* error and without the later steps, and the context returned has the
\* resolved directory (all input directories name /w/d), the given target,
\* the given bake_args (empty when omitted), the configuration read from
\* the file and requires_git_auth equal to the configuration having a
\* remote entry.
C21_LoadBakeContext ==
    loader # NotCalled =>
        /\ loader.steps = SubSeq(LoadSteps, 1, Len(loader.steps))
        /\ validate_directory(disk.dir).state = "raised" =>
            (Len(loader.steps) >= 1 => loader.steps = <<"validate_directory">> /\ context.state = "raised")
        /\ (context # NotCalled /\ context.state = "raised") =>
            /\ loader.pc = "raised"
            /\ Len(loader.steps) \in {1, 2}
            /\ loader.configuration = NotCalled
        /\ (context # NotCalled /\ context.state = "returned") =>
            /\ loader.steps = LoadSteps
            /\ disk.dir.kind = "dir" /\ disk.dir.readable
            /\ context.directory = [absolute |-> TRUE, parts |-> <<"w", "d">>]
            /\ context.target = load_args.target
            /\ context.options.args =
                    (IF load_args.bake_args.some THEN load_args.bake_args.val ELSE <<>>)
            /\ context.configuration = from_file(disk.config_file)
            /\ requires_git_auth(context)
                <=> \E i \in 1..Len(context.configuration.path_definitions) :
                        context.configuration.path_definitions[i].is_remote

C21_Witness ==
    /\ loader # NotCalled
    /\ context # NotCalled
    /\ context.state = "returned"
    /\ ~load_args.directory.absolute
    /\ Len(load_args.directory.parts) > 1
    /\ ~load_args.bake_args.some
    /\ ~load_args.target.some
    /\ requires_git_auth(context)

\* C23: _validate_directory reports the first failing check of: the path
\* exists (FileNotFoundError "Directory does not exist"), it is a directory
\* (ConfigurationError "Path is not a directory"), it is readable
\* (ConfigurationError "Cannot read directory"); otherwise it returns, and
\* in every case it leaves the disk, the arguments and the settings alone.
C23_ValidateDirectory ==
    [][(loader # NotCalled /\ loader.pc = "start" /\ loader'.pc # "start") =>
        /\ disk' = disk /\ load_args' = load_args /\ settings' = settings
        /\ IF disk.dir.kind = "missing"
           THEN context' = Raise("FileNotFoundError", {MsgDirectoryNotExist})
           ELSE IF disk.dir.kind = "file"
           THEN context' = Raise("ConfigurationError", {MsgNotADirectory})
           ELSE IF ~disk.dir.readable
           THEN context' = Raise("ConfigurationError", {MsgCannotRead})
           ELSE context' = NotCalled /\ loader'.pc = "validated"]_vars

C23_Witness ==
    /\ loader # NotCalled
    /\ loader.steps = <<"validate_directory">>
    /\ disk.dir.kind = "file" /\ ~disk.dir.readable
    /\ LoadRaised("ConfigurationError", MsgNotADirectory)

C25_ValidateContextOnlyWarns ==
    [][(loader # NotCalled /\ validation = NotCalled /\ validation' # NotCalled) =>
        /\ validation'.state = "returned"
        /\ context' = context /\ settings' = settings /\ disk' = disk
        /\ WarnGitAuth \in validation'.warnings
            <=> /\ requires_git_auth(context)
                /\ ~settings.is_ci
                /\ settings.git_auth_token \in {None, Some(<<>>)}
        /\ WarnNotWritable \in validation'.warnings <=> ~disk.dir.writable]_vars

C25_Witness ==
    /\ validation # NotCalled
    /\ validation.state = "returned"
    /\ validation.warnings = {WarnGitAuth, WarnNotWritable}
    /\ settings.git_auth_token = Some(<<>>)

----------------------------------------------------------------------------
(* Properties of DockerBakeExecutor (checked under SpecExecute) *)

\* the context's target is None or the empty string
NoTarget == given_context.target = None \/ given_context.target = Some(<<>>)

\* execute_bake has returned a BuildResult
ResultReturned ==
    /\ exec # NotCalled
    /\ build_result # NotCalled
    /\ build_result.state = "returned"

\* the words the command is made of
CommandWords ==
    <<Docker, Buildx, Bake>>
    \o get_bake_file_args(given_context.configuration)
    \o <<MetadataFileFlag, given_context.options.metadata_file>>
    \o given_context.options.args
    \o <<given_context.target.val>>

\* C26: execute_bake raises ValueError ("Target must be specified for bake
\* execution") when the target is None or empty, with no command built or
\* run; with a non-empty target it never raises, and a failure of the
\* command or of building the result ends in a returned BuildResult with
\* success = false.
C26_TargetRequired ==
    (exec # NotCalled /\ exec.pc # "start") =>
        IF NoTarget
        THEN /\ build_result = Raise("ValueError", {MsgTargetMustBeSpecified})
             /\ exec.effects = <<>>
             /\ exec.cmd = NotCalled
        ELSE /\ build_result.state # "raised"
             /\ exec.pc # "raised"
             /\ exec.pc = "done" =>
                /\ build_result.state = "returned"
                /\ (host.run # "ok" \/ exec.caught # NotCalled) => ~build_result.success

C26_Witness ==
    /\ exec # NotCalled
    /\ given_context.target = Some(<<>>)
    /\ build_result.state = "raised"
    /\ exec.effects = <<>>

\* C27: every BuildResult execute_bake returns has the context's target, a
\* duration, and an error_message exactly when success is false; a failed
\* result has no images and empty metadata, and the metadata file was not
\* read on the way to it.
C27_ResultShape ==
    ResultReturned =>
        /\ build_result.target = given_context.target.val
        /\ build_result.duration_seconds.some
        /\ build_result.error_message.some <=> ~build_result.success
        /\ ~build_result.success =>
            /\ build_result.images = <<>>
            /\ build_result.metadata = EmptyDict
            /\ \A i \in 1..Len(exec.effects) : exec.effects[i] # "load_build_metadata"

\* C28: when the bake command exits successfully, execute_bake returns a
\* BuildResult with success = true whatever the metadata file is, and a
\* file that is missing, unreadable, not JSON or not a mapping gives
\* metadata = {} and images = [].
C28_SuccessWhateverMetadata ==
    (exec # NotCalled /\ exec.pc = "done" /\ host.run = "ok") =>
        /\ build_result.success
        /\ (host.metadata_file.kind # "json" \/ host.metadata_file.data.type # "object") =>
            /\ build_result.metadata = EmptyDict
            /\ build_result.images = <<>>

\* C29: the command is "docker buildx bake", the file arguments of
\* get_bake_file_args, "--metadata-file" and the metadata file, the option
\* args in order and the target, joined by single spaces; so the target is
\* the last word and every --file pair comes before --metadata-file.
C29_BuildCommand ==
    (exec # NotCalled /\ exec.cmd # NotCalled) =>
        LET cmd == exec.cmd.val
            target == given_context.target.val
            nfile == Len(get_bake_file_args(given_context.configuration))
        IN  /\ cmd = join(CommandWords)
            /\ SubSeq(cmd, Len(cmd) - Len(target) + 1, Len(cmd)) = target
            /\ cmd[Len(cmd) - Len(target)] = " "
            /\ \A i \in 1..Len(CommandWords) :
                /\ CommandWords[i] = FileFlag => (i > 3 /\ i < 3 + nfile)
                /\ CommandWords[i] = MetadataFileFlag => i = 3 + nfile + 1

C29_Witness ==
    /\ exec # NotCalled
    /\ exec.cmd # NotCalled
    /\ has_remote_files(given_context.configuration.path_definitions)
    /\ Len(given_context.options.args) = 2
    /\ given_context.options.metadata_file = DefaultMetadataFile

====
